---------------------------- MODULE Spec2Model ----------------------------
(***************************************************************************)
(* Model of src/main.py: a Streamlit script that, on every run, walks the  *)
(* uploaded files in order, skips the oversized ones, loads each remaining *)
(* file into a data frame, previews it, optionally fills missing numeric   *)
(* values and selects columns, optionally charts it, and on request        *)
(* serialises it under a new file name.                                    *)
(*                                                                         *)
(* A file name is a sequence of one-character strings; a data frame is a   *)
(* record of position-aligned sequences (columns, dtypes, data); a cell is *)
(* a record of one shape (kind, rational value, text).                     *)
(***************************************************************************)
EXTENDS Integers, Sequences, FiniteSets, TLC

VARIABLES
    files,           \* the uploader's list of files (line 117)
    max_file_size,   \* sidebar number input, MB (line 18)
    show_full_data,  \* sidebar checkbox (line 19)
    idx,             \* position of the for loop of line 124 (1-based)
    pc,              \* the statement the script run is at
    status,          \* per file: how this run left it
    trace,           \* stages the current file has gone through, in order
    msgs,            \* messages shown for the current file
    widgets,         \* widget identities registered in this run
    df,              \* the current file's data frame (None before a load)
    loaded,          \* the data frame as handle_file_upload returned it
    preview,         \* the table shown under "Data Preview"
    chart,           \* the table handed to st.bar_chart
    download,        \* the artifact handed to st.download_button
    inputs           \* widget values read for the current file in this run

vars == << files, max_file_size, show_full_data, idx, pc, status, trace, msgs,
           widgets, df, loaded, preview, chart, download, inputs >>

----------------------------------------------------------------------------
(* Optional values: None, or a one-element sequence.                       *)

None == << >>

Some(x) == << x >>

IsSome(o) == Len(o) = 1

Get(o) == o[1]

Min(a, b) == IF a < b THEN a ELSE b

SeqToSet(s) == { s[i] : i \in 1..Len(s) }

\* All sequences without repetition over the elements of sequence s,
\* in every order (what a multiselect over the options s can return).
RECURSIVE Arrangements(_)
Arrangements(S) ==
    IF S = {} THEN { << >> }
    ELSE { << >> } \cup
         UNION { { << x >> \o t : t \in Arrangements(S \ {x}) } : x \in S }

----------------------------------------------------------------------------
(* Strings as Python sees them.                                            *)

\* str.lower() on one character.
LowerChar(c) ==
    CASE c = "C" -> "c" [] c = "S" -> "s" [] c = "V" -> "v"
      [] c = "X" -> "x" [] c = "L" -> "l" [] c = "D" -> "d"
      [] c = "T" -> "t"
      [] OTHER -> c

Lower(s) == [ i \in 1..Len(s) |-> LowerChar(s[i]) ]

\* s.split(".")[-1]: what follows the last dot, the whole of s without one.
LastSegment(s) ==
    LET dots == { i \in 1..Len(s) : s[i] = "." }
    IN  IF dots = {} THEN s
        ELSE LET last == CHOOSE i \in dots : \A j \in dots : j <= i
             IN  SubSeq(s, last + 1, Len(s))

\* Whether old occurs in s at position i.
OccursAt(s, old, i) ==
    /\ i + Len(old) - 1 <= Len(s)
    /\ SubSeq(s, i, i + Len(old) - 1) = old

\* s.replace(old, new): every non-overlapping occurrence, left to right.
RECURSIVE ReplaceFrom(_, _, _, _)
ReplaceFrom(s, old, new, i) ==
    IF i > Len(s) THEN << >>
    ELSE IF Len(old) > 0 /\ OccursAt(s, old, i)
         THEN new \o ReplaceFrom(s, old, new, i + Len(old))
         ELSE << s[i] >> \o ReplaceFrom(s, old, new, i + 1)

Replace(s, old, new) == ReplaceFrom(s, old, new, 1)

\* file.name.split(".")[-1].lower()
ExtOf(name) == Lower(LastSegment(name))

csv == << "c", "s", "v" >>

xlsx == << "x", "l", "s", "x" >>

xls == << "x", "l", "s" >>

----------------------------------------------------------------------------
(* Cells and data frames.                                                  *)

\* A missing entry (NaN).
NaN == [ k |-> "nan", n |-> 0, d |-> 1, s |-> "" ]

\* The number n/d, d > 0, in lowest terms.
Num(n, d) == [ k |-> "num", n |-> n, d |-> d, s |-> "" ]

\* A text entry.
Str(t) == [ k |-> "str", n |-> 0, d |-> 1, s |-> t ]

RECURSIVE Gcd(_, _)
Gcd(a, b) == IF b = 0 THEN a ELSE Gcd(b, a % b)

Abs(a) == IF a < 0 THEN -a ELSE a

Normal(n, d) ==
    LET g == Gcd(Abs(n), d) IN Num(n \div g, d \div g)

Plus(x, y) == Normal(x.n * y.d + y.n * x.d, x.d * y.d)

RECURSIVE SumCells(_)
SumCells(cells) ==
    IF cells = << >> THEN Num(0, 1)
    ELSE IF Head(cells).k = "num"
         THEN Plus(Head(cells), SumCells(Tail(cells)))
         ELSE SumCells(Tail(cells))

CountPresent(cells) == Cardinality({ i \in 1..Len(cells) : cells[i].k = "num" })

\* A plausible slip: the mean taken over all rows, missing ones included.
MeanOverAllRows(cells) ==
    IF CountPresent(cells) = 0 THEN NaN
    ELSE LET t == SumCells(cells) IN Normal(t.n, t.d * Len(cells))

\* Series.mean() of one column: missing entries are skipped; NaN when
\* nothing is left.
Mean(cells) ==
    IF CountPresent(cells) = 0 THEN NaN
    ELSE LET t == SumCells(cells) IN Normal(t.n, t.d * CountPresent(cells))

NumericPositions(T) == { j \in 1..Len(T.columns) : T.dtypes[j] = "number" }

\* The positions in S, ascending, as a sequence.
RECURSIVE Ascending(_)
Ascending(S) ==
    IF S = {} THEN << >>
    ELSE LET m == CHOOSE x \in S : \A y \in S : x <= y
         IN  << m >> \o Ascending(S \ {m})

\* The frame made of the columns of T at the positions ps, in that order.
Take(T, ps) ==
    [ columns |-> [ i \in 1..Len(ps) |-> T.columns[ps[i]] ],
      dtypes  |-> [ i \in 1..Len(ps) |-> T.dtypes[ps[i]] ],
      rows    |-> T.rows,
      data    |-> [ i \in 1..Len(ps) |-> T.data[ps[i]] ] ]

PositionOf(T, name) == CHOOSE j \in 1..Len(T.columns) : T.columns[j] = name

\* A plausible slip: the kept columns in the frame's own order.
SelectInFrameOrder(T, names) ==
    Take(T, Ascending({ PositionOf(T, names[i]) : i \in 1..Len(names) }))

\* df[names]: the named columns in the order of names.
SelectColumns(T, names) ==
    Take(T, [ i \in 1..Len(names) |-> PositionOf(T, names[i]) ])

\* df.select_dtypes(include="number")
SelectNumeric(T) == Take(T, Ascending(NumericPositions(T)))

\* DataFrame.empty: some axis has length 0.
FrameEmpty(T) == Len(T.columns) = 0 \/ T.rows = 0

\* df.head(n)
HeadRows(T, n) ==
    [ T EXCEPT !.rows = Min(T.rows, n),
               !.data = [ j \in 1..Len(T.columns) |->
                            SubSeq(T.data[j], 1, Min(T.rows, n)) ] ]

\* df[numeric_cols].mean(): per numeric column its mean, None elsewhere.
ColumnMeans(T) ==
    [ j \in 1..Len(T.columns) |->
        IF T.dtypes[j] = "number" THEN Some(Mean(T.data[j])) ELSE None ]

\* df.fillna(values): a missing entry of a column that values covers
\* becomes that column's value (a NaN value leaves it missing).
FillNa(T, values) ==
    [ T EXCEPT !.data =
        [ j \in 1..Len(T.columns) |->
            [ i \in 1..T.rows |->
                IF T.data[j][i].k = "nan" /\ IsSome(values[j])
                THEN Get(values[j]) ELSE T.data[j][i] ] ] ]

----------------------------------------------------------------------------
(* File contents and the readers.                                          *)

Numerals == { "1", "3", "25", "35" }

NumeralValue(t) ==
    CASE t = "1" -> 1 [] t = "3" -> 3 [] t = "25" -> 25 [] t = "35" -> 35
      [] OTHER -> 0

\* The dtype the reader infers for a column of raw fields: float/int when
\* there is a row and every field is a numeral or empty, object otherwise.
InferDtype(raw) ==
    IF Len(raw) > 0 /\ \A i \in 1..Len(raw) : raw[i] \in Numerals \cup { "" }
    THEN "number" ELSE "object"

ParseField(t, dtype) ==
    IF t = "" THEN NaN
    ELSE IF dtype = "number" THEN Num(NumeralValue(t), 1) ELSE Str(t)

\* pd.read_csv / pd.read_excel on well-formed content: first row is the
\* header, empty fields are missing.
ParseGrid(c) ==
    LET raw(j) == [ i \in 1..Len(c.body) |-> c.body[i][j] ]
    IN  [ columns |-> c.header,
          dtypes  |-> [ j \in 1..Len(c.header) |-> InferDtype(raw(j)) ],
          rows    |-> Len(c.body),
          data    |-> [ j \in 1..Len(c.header) |->
                          [ i \in 1..Len(c.body) |->
                              ParseField(c.body[i][j], InferDtype(raw(j))) ] ] ]

\* A plausible slip: xls left out of the accepted extensions.
ReaderForNoXls(ext) ==
    IF ext = csv THEN "csv"
    ELSE IF ext = xlsx THEN "excel"
    ELSE "none"

\* The reader handle_file_upload picks for an extension.
ReaderFor(ext) ==
    IF ext = csv THEN "csv"
    ELSE IF ext \in { xlsx, xls } THEN "excel"
    ELSE "none"

----------------------------------------------------------------------------
(* Settings, files and the script's constants.                             *)

\* st.number_input(..., min_value=1, value=10)
MinMaxFileSize == 1

DefaultMaxFileSize == 10

\* df.head(20)
PreviewRows == 20

\* numeric_cols.columns[:2]
DefaultChartColumns == 2

BytesPerMB == 1024 * 1024

\* The number of files uploaded at once.
MaxFiles == 3

MaxFileSizeChoices == { MinMaxFileSize, DefaultMaxFileSize }

\* The scenario table: age 25, missing, 35 and name A, B, C.
AgeNameHeader == << "age", "name" >>

AgeNameBody == << << "25", "A" >>, << "", "B" >>, << "35", "C" >> >>

CsvContent == [ kind |-> "csv", header |-> AgeNameHeader, body |-> AgeNameBody ]

ExcelContent == [ kind |-> "excel", header |-> AgeNameHeader, body |-> AgeNameBody ]

Garbage == [ kind |-> "garbage", header |-> << >>, body |-> << >> ]

File(name, size, content) == [ name |-> name, size |-> size, content |-> content ]

\* The files a user may upload: a plain csv, an upper-case XLSX, an xls one
\* byte over 1 MB, a txt, and an unreadable csv one byte over 1 MB. (The
\* uploader's type list is a filter of the browser widget;
\* handle_file_upload itself takes a file of any name.)
Catalog ==
    { File(<< "d", ".", "c", "s", "v" >>, BytesPerMB, CsvContent),
      File(<< "D", ".", "X", "L", "S", "X" >>, BytesPerMB, ExcelContent),
      File(<< "d", ".", "x", "l", "s" >>, BytesPerMB + 1, ExcelContent),
      File(<< "d", ".", "t", "x", "t" >>, BytesPerMB, CsvContent),
      File(<< "d", ".", "c", "s", "v" >>, BytesPerMB + 1, Garbage) }

\* A plausible slip: whole megabytes compared (// for /).
ExceedsWholeMB(size, limit) == (size \div BytesPerMB) > limit

\* file.size / (1024 * 1024) > max_file_size
ExceedsLimit(size, limit) == size > limit * BytesPerMB

\* Widget values not yet read in this run.
NoInputs ==
    [ fill |-> FALSE, selected |-> << >>, show_chart |-> FALSE,
      chart_touched |-> FALSE, chart_cols |-> << >>,
      format |-> "CSV", clicked |-> FALSE ]

\* The identity Streamlit derives for a widget of a file: its kind and its
\* label or key, both built from the file name alone. The first widget of
\* a step stands for the widgets of that step.
WidgetId(kind, name) == [ kind |-> kind, name |-> name ]

\* The statement that follows statement p for a file that goes on.
\* A plausible slip: the preview moved after the transformations.
StepAfterPreviewLast(p) ==
    CASE p = "size"    -> "load"
      [] p = "load"    -> "fill"
      [] p = "fill"    -> "select"
      [] p = "select"  -> "preview"
      [] p = "preview" -> "chart"
      [] p = "chart"   -> "export"
      [] p = "export"  -> "finish"
      [] OTHER         -> "next"

StepAfter(p) ==
    CASE p = "size"    -> "load"
      [] p = "load"    -> "preview"
      [] p = "preview" -> "fill"
      [] p = "fill"    -> "select"
      [] p = "select"  -> "chart"
      [] p = "chart"   -> "export"
      [] p = "export"  -> "finish"
      [] OTHER         -> "next"

----------------------------------------------------------------------------
(* The script run.                                                         *)

\* The per-file state at the top of the loop body.
FreshFile ==
    /\ trace' = << "Received" >>
    /\ msgs' = {}
    /\ df' = None
    /\ loaded' = None
    /\ preview' = None
    /\ chart' = None
    /\ download' = None
    /\ inputs' = NoInputs

\* A run starts: nothing rendered, no widget registered, the loop at the
\* first file (or past it, "if files:" being false).
StartRun(fs) ==
    /\ idx' = 1
    /\ pc' = IF Len(fs) = 0 THEN "end" ELSE "size"
    /\ status' = [ i \in 1..Len(fs) |-> "Pending" ]
    /\ widgets' = {}
    /\ FreshFile

Init ==
    /\ files = << >>
    /\ max_file_size = DefaultMaxFileSize
    /\ show_full_data = FALSE
    /\ idx = 1
    /\ pc = "end"
    /\ status = << >>
    /\ trace = << >>
    /\ msgs = {}
    /\ widgets = {}
    /\ df = None
    /\ loaded = None
    /\ preview = None
    /\ chart = None
    /\ download = None
    /\ inputs = NoInputs

\* Whether the run is over (completed, or ended by an exception). An
\* interaction that arrives earlier stops the run and starts the very run
\* it would have started afterwards, so it is taken here.
RunOver == pc \in { "end", "aborted" }

\* The user adds a file to the uploader; the script runs again.
Upload ==
    /\ RunOver
    /\ Len(files) < MaxFiles
    /\ \E f \in Catalog : files' = Append(files, f) /\ StartRun(Append(files, f))
    /\ UNCHANGED << max_file_size, show_full_data >>

\* The user touches a widget (a setting or a per-file widget); the script
\* runs again.
Rerun ==
    /\ RunOver
    /\ Len(files) > 0
    /\ max_file_size' \in MaxFileSizeChoices
    /\ show_full_data' \in BOOLEAN
    /\ StartRun(files)
    /\ UNCHANGED files

\* An exception nobody catches ends the run; Streamlit shows it.
Raise ==
    /\ pc' = "aborted"
    /\ msgs' = msgs \cup { "exception" }
    /\ UNCHANGED << files, max_file_size, show_full_data, idx, status, trace,
                    widgets, df, loaded, preview, chart, download, inputs >>

\* Lines 126-129: the size check.
SizeCheck ==
    /\ pc = "size"
    /\ IF ExceedsLimit(files[idx].size, max_file_size)
       THEN /\ msgs' = msgs \cup { "warning: exceeds maximum size" }
            /\ trace' = trace \o << "SizeChecked", "Skipped" >>
            /\ status' = [ status EXCEPT ![idx] = "Skipped" ]
            /\ pc' = "next"
       ELSE /\ trace' = Append(trace, "SizeChecked")
            /\ pc' = StepAfter("size")
            /\ UNCHANGED << msgs, status >>
    /\ UNCHANGED << files, max_file_size, show_full_data, idx, widgets, df,
                    loaded, preview, chart, download, inputs >>

\* Lines 136-138 with handle_file_upload (lines 21-40).
Load ==
    /\ pc = "load"
    /\ LET f == files[idx]
           reader == ReaderFor(ExtOf(f.name))
       IN  IF reader = "none"
           THEN /\ msgs' = msgs \cup { "error: unsupported file format" }
                /\ trace' = Append(trace, "LoadFailed")
                /\ status' = [ status EXCEPT ![idx] = "LoadFailed" ]
                /\ pc' = "next"
                /\ UNCHANGED << df, loaded >>
           ELSE IF f.content.kind # reader
           THEN /\ msgs' = msgs \cup { "error: reading" }
                /\ trace' = Append(trace, "LoadFailed")
                /\ status' = [ status EXCEPT ![idx] = "LoadFailed" ]
                /\ pc' = "next"
                /\ UNCHANGED << df, loaded >>
           ELSE /\ df' = Some(ParseGrid(f.content))
                /\ loaded' = Some(ParseGrid(f.content))
                /\ trace' = Append(trace, "Loaded")
                /\ pc' = StepAfter("load")
                /\ UNCHANGED << msgs, status >>
    /\ UNCHANGED << files, max_file_size, show_full_data, idx, widgets,
                    preview, chart, download, inputs >>

\* Lines 46-47: the data preview.
ShowPreview ==
    /\ pc = "preview"
    /\ preview' = Some(IF show_full_data THEN Get(df)
                       ELSE HeadRows(Get(df), PreviewRows))
    /\ trace' = Append(trace, "Previewed")
    /\ pc' = StepAfter("preview")
    /\ UNCHANGED << files, max_file_size, show_full_data, idx, status, msgs,
                    widgets, df, loaded, chart, download, inputs >>

\* Registering a widget whose identity this run already holds raises
\* DuplicateWidgetID.
Duplicate(id) == id \in widgets

\* Lines 50-57: the fill-missing checkbox and df.fillna(mean, inplace).
\* The five-row view of line 57 changes nothing and is not kept.
FillMissingValues ==
    /\ pc = "fill"
    /\ LET id == WidgetId("Fill Missing Values", files[idx].name)
       IN  IF Duplicate(id) THEN Raise
           ELSE /\ widgets' = widgets \cup { id }
                /\ \E checked \in BOOLEAN :
                     /\ inputs' = [ inputs EXCEPT !.fill = checked ]
                     /\ IF ~checked
                        THEN UNCHANGED << df, msgs >>
                        ELSE IF NumericPositions(Get(df)) # {}
                        THEN /\ df' = Some(FillNa(Get(df), ColumnMeans(Get(df))))
                             /\ msgs' = msgs \cup { "success: missing values filled" }
                        ELSE /\ msgs' = msgs \cup { "warning: no numeric columns for imputation" }
                             /\ UNCHANGED df
                /\ pc' = StepAfter("fill")
                /\ UNCHANGED << files, max_file_size, show_full_data, idx,
                                status, trace, loaded, preview, chart, download >>

\* Lines 60-65: the column multiselect (any columns, in the order the user
\* picked them; all of them by default) and df = df[selected_columns].
ChooseColumns ==
    /\ pc = "select"
    /\ LET id == WidgetId("Select Columns", files[idx].name)
       IN  IF Duplicate(id) THEN Raise
           ELSE /\ widgets' = widgets \cup { id }
                /\ \E selected \in Arrangements(SeqToSet(Get(df).columns)) :
                     /\ inputs' = [ inputs EXCEPT !.selected = selected ]
                     /\ df' = Some(SelectColumns(Get(df), selected))
                /\ trace' = Append(trace, "Transformed")
                /\ pc' = StepAfter("select")
                /\ UNCHANGED << files, max_file_size, show_full_data, idx,
                                status, msgs, loaded, preview, chart, download >>

\* A plausible slip: every numeric column charted by default.
DefaultChartAll(columns) == columns

\* numeric_cols.columns[:2].tolist()
DefaultChart(columns) ==
    SubSeq(columns, 1, Min(Len(columns), DefaultChartColumns))

\* Lines 68-79: the chart checkbox, the chart multiselect over the numeric
\* columns of the selected frame, and st.bar_chart.
ShowChart ==
    /\ pc = "chart"
    /\ LET id == WidgetId("Show Chart", files[idx].name)
           numeric == SelectNumeric(Get(df))
       IN  IF Duplicate(id) THEN Raise
           ELSE /\ widgets' = widgets \cup { id }
                /\ \E on \in BOOLEAN :
                     IF ~on
                     THEN /\ inputs' = [ inputs EXCEPT !.show_chart = FALSE ]
                          /\ UNCHANGED << chart, msgs >>
                     ELSE IF FrameEmpty(numeric)
                     THEN /\ inputs' = [ inputs EXCEPT !.show_chart = TRUE ]
                          /\ msgs' = msgs \cup { "warning: no numeric columns for visualization" }
                          /\ UNCHANGED chart
                     ELSE \E touched \in BOOLEAN,
                             picked \in Arrangements(SeqToSet(numeric.columns)) :
                            LET cols == IF touched THEN picked
                                        ELSE DefaultChart(numeric.columns)
                            IN  /\ inputs' = [ inputs EXCEPT
                                                 !.show_chart = TRUE,
                                                 !.chart_touched = touched,
                                                 !.chart_cols = cols ]
                                /\ chart' = IF cols # << >>
                                            THEN Some(SelectColumns(Get(df), cols))
                                            ELSE None
                                /\ UNCHANGED msgs
                /\ pc' = StepAfter("chart")
                /\ UNCHANGED << files, max_file_size, show_full_data, idx,
                                status, trace, df, loaded, preview, download >>

\* One row of T, fields in column order; na is what a missing entry
\* is written as.
RowOf(T, i, na) ==
    [ j \in 1..Len(T.columns) |->
        IF T.data[j][i].k = "nan" THEN na ELSE T.data[j][i] ]

\* df.to_csv(output, index=False): a header row, then one line per row,
\* missing entries written as empty fields, no index column.
ToCsv(T) ==
    [ format |-> "csv", header |-> T.columns, index |-> FALSE,
      body |-> [ i \in 1..T.rows |-> RowOf(T, i, Str("")) ] ]

\* df.to_excel(output, index=False): one sheet, a header row, missing
\* entries left as blank cells, no index column.
ToExcel(T) ==
    [ format |-> "xlsx", header |-> T.columns, index |-> FALSE,
      body |-> [ i \in 1..T.rows |-> RowOf(T, i, NaN) ] ]

\* A plausible slip: the same MIME type on both branches.
MimeAlwaysCsv(format) == "text/csv"

MimeOf(format) ==
    IF format = "CSV" THEN "text/csv"
    ELSE "application/vnd.openxmlformats-officedocument.spreadsheetml.sheet"

\* file_name.replace(original_ext, "csv" | "xlsx")
NewName(name, original_ext, format) ==
    Replace(name, original_ext, IF format = "CSV" THEN csv ELSE xlsx)

Artifact(T, name, original_ext, format) ==
    [ data      |-> IF format = "CSV" THEN ToCsv(T) ELSE ToExcel(T),
      file_name |-> NewName(name, original_ext, format),
      mime      |-> MimeOf(format) ]

\* Line 141 and convert_and_download (lines 83-114): the format radio, the
\* download button, and behind it the writer, which may reject the frame
\* (the except branch of line 113).
ConvertAndDownload ==
    /\ pc = "export"
    /\ LET name == files[idx].name
           id == WidgetId("format", name)
       IN  IF Duplicate(id) THEN Raise
           ELSE /\ widgets' = widgets \cup { id }
                /\ \E format \in { "CSV", "Excel" }, clicked \in BOOLEAN,
                      rejected \in BOOLEAN :
                     /\ inputs' = [ inputs EXCEPT !.format = format,
                                                   !.clicked = clicked ]
                     /\ IF ~clicked
                        THEN UNCHANGED << download, msgs >>
                        ELSE IF rejected
                        THEN /\ msgs' = msgs \cup { "error: conversion" }
                             /\ UNCHANGED download
                        ELSE /\ download' = Some(Artifact(Get(df), name,
                                                           ExtOf(name), format))
                             /\ msgs' = msgs \cup { "success: file ready" }
                /\ trace' = Append(trace, "Exported")
                /\ pc' = StepAfter("export")
                /\ UNCHANGED << files, max_file_size, show_full_data, idx,
                                status, df, loaded, preview, chart >>

\* Line 147: the completion message.
Finish ==
    /\ pc = "finish"
    /\ msgs' = msgs \cup { "success: processing completed" }
    /\ trace' = Append(trace, "Done")
    /\ status' = [ status EXCEPT ![idx] = "Done" ]
    /\ pc' = "next"
    /\ UNCHANGED << files, max_file_size, show_full_data, idx, widgets, df,
                    loaded, preview, chart, download, inputs >>

\* Line 124: the loop goes to the next file, or ends.
NextFile ==
    /\ pc = "next"
    /\ IF idx < Len(files)
       THEN /\ idx' = idx + 1
            /\ pc' = "size"
            /\ FreshFile
       ELSE /\ pc' = "end"
            /\ UNCHANGED << idx, trace, msgs, df, loaded, preview, chart,
                            download, inputs >>
    /\ UNCHANGED << files, max_file_size, show_full_data, status, widgets >>

Next ==
    \/ Upload
    \/ Rerun
    \/ SizeCheck
    \/ Load
    \/ ShowPreview
    \/ FillMissingValues
    \/ ChooseColumns
    \/ ShowChart
    \/ ConvertAndDownload
    \/ Finish
    \/ NextFile

Spec == Init /\ [][Next]_vars

----------------------------------------------------------------------------
(* process_dataframe and convert_and_download on their own: the run is     *)
(* taken up where one file has just been loaded (or processed), with the   *)
(* file's content and name drawn from wider sets.                          *)

\* The most rows a generated file holds.
MaxRows == 3

RawFields == { "", "1", "3", "x" }

PlainName == << "d", ".", "c", "s", "v" >>

\* Every csv content over the header h with at most MaxRows rows.
GridsOver(h) ==
    { [ kind |-> "csv", header |-> h, body |-> b ] :
        b \in UNION { [ 1..r -> [ 1..Len(h) -> RawFields ] ] : r \in 0..MaxRows } }

FillGrids == GridsOver(<< "a" >>) \cup GridsOver(<< "a", "b" >>)

\* The content over the header h with r rows whose column j is numeric
\* (1, missing, 1, ...) where numeric[j], and text otherwise.
SampleGrid(h, numeric, r) ==
    [ kind |-> "csv", header |-> h,
      body |-> [ i \in 1..r |->
                   [ j \in 1..Len(h) |->
                       IF numeric[j]
                       THEN (IF (i + j) % 2 = 0 THEN "1" ELSE "")
                       ELSE "x" ] ] ]

ProcessHeaders == { << "a" >>, << "a", "b" >>, << "a", "b", "c" >> }

ProcessGrids ==
    { SampleGrid(h, numeric, r) :
        h \in ProcessHeaders, numeric \in [ 1..3 -> BOOLEAN ], r \in 0..MaxRows }

\* The state the script is in when the one file f has been loaded.
JustLoaded(f) ==
    /\ files = << f >>
    /\ max_file_size = DefaultMaxFileSize
    /\ idx = 1
    /\ status = << "Pending" >>
    /\ msgs = {}
    /\ df = Some(ParseGrid(f.content))
    /\ loaded = Some(ParseGrid(f.content))
    /\ chart = None
    /\ download = None

InitProcess ==
    \E g \in ProcessGrids :
        /\ JustLoaded(File(PlainName, BytesPerMB, g))
        /\ show_full_data \in BOOLEAN
        /\ pc = "preview"
        /\ trace = << "Received", "SizeChecked", "Loaded" >>
        /\ widgets = {}
        /\ preview = None
        /\ inputs = NoInputs

NextProcess ==
    \/ ShowPreview
    \/ FillMissingValues
    \/ ChooseColumns
    \/ ShowChart

SpecProcess == InitProcess /\ [][NextProcess]_vars

InitFill ==
    \E g \in FillGrids :
        /\ JustLoaded(File(PlainName, BytesPerMB, g))
        /\ show_full_data = FALSE
        /\ pc = "fill"
        /\ trace = << "Received", "SizeChecked", "Loaded", "Previewed" >>
        /\ widgets = {}
        /\ preview = Some(HeadRows(ParseGrid(g), PreviewRows))
        /\ inputs = NoInputs

NextFill == FillMissingValues

SpecFill == InitFill /\ [][NextFill]_vars

Stems == { << "d" >>, << "c", "s", "v" >>, << "x", "l", "s", "_", "d" >>,
           << "a", ".", "c", "s", "v" >> }

Spellings == { csv, << "C", "S", "V" >>, xlsx, << "X", "L", "S", "X" >>,
               xls, << "X", "l", "s" >> }

ExportNames == { stem \o << "." >> \o e : stem \in Stems, e \in Spellings }

ContentFor(name) ==
    IF ReaderFor(ExtOf(name)) = "csv" THEN CsvContent ELSE ExcelContent

\* The one file, loaded, previewed, left as it is (no fill, every column
\* kept, no chart): convert_and_download is about to be called.
InitExport ==
    \E name \in ExportNames :
        /\ JustLoaded(File(name, BytesPerMB, ContentFor(name)))
        /\ show_full_data = FALSE
        /\ pc = "export"
        /\ trace = << "Received", "SizeChecked", "Loaded", "Previewed",
                      "Transformed" >>
        /\ widgets = { WidgetId("Fill Missing Values", name),
                       WidgetId("Select Columns", name),
                       WidgetId("Show Chart", name) }
        /\ preview = Some(HeadRows(ParseGrid(ContentFor(name)), PreviewRows))
        /\ inputs = [ NoInputs EXCEPT !.selected = AgeNameHeader ]

NextExport ==
    \/ ConvertAndDownload
    \/ Finish

SpecExport == InitExport /\ [][NextExport]_vars

----------------------------------------------------------------------------
(* The claims.                                                             *)

HasFiles == Len(files) > 0

\* The declared size of file i, in MB, exceeds the configured maximum.
Oversized(i) == files[i].size > max_file_size * 1048576

\* The last dot-separated segment of the name is csv, xlsx or xls in some
\* letter case.
Accepted(name) == Lower(LastSegment(name)) \in { csv, xlsx, xls }

\* File i is within the size limit and a reader can read it.
Eligible(i) ==
    /\ ~Oversized(i)
    /\ Accepted(files[i].name)
    /\ files[i].content.kind =
         (IF Lower(LastSegment(files[i].name)) = csv THEN "csv" ELSE "excel")

\* The elements of s that are in S, in the order of s.
RECURSIVE Kept(_, _)
Kept(s, S) ==
    IF s = << >> THEN << >>
    ELSE IF Head(s) \in S THEN << Head(s) >> \o Kept(Tail(s), S)
         ELSE Kept(Tail(s), S)

NothingProduced ==
    df = None /\ loaded = None /\ preview = None /\ chart = None /\ download = None

\* C1: a file whose declared size in MB exceeds max_file_size is skipped
\* with a warning before anything is parsed: it is never loaded, previewed,
\* transformed or exported, and the run leaves it as Skipped.
C1_OversizedNeverLoaded ==
    /\ \A i \in 1..Len(files) :
         Oversized(i) =>
           /\ status[i] \in { "Pending", "Skipped" }
           /\ i < idx => status[i] = "Skipped"
    /\ (HasFiles /\ Oversized(idx)) =>
         /\ NothingProduced
         /\ pc \in { "size", "next", "end" }
         /\ pc = "size" => trace = << "Received" >>
         /\ pc # "size" =>
              /\ trace = << "Received", "SizeChecked", "Skipped" >>
              /\ msgs = { "warning: exceeds maximum size" }
              /\ status[idx] = "Skipped"

\* C1's case: an oversized file has been skipped after an earlier file
\* was processed to the end.
C1_Witness ==
    /\ HasFiles
    /\ idx > 1
    /\ status[1] = "Done"
    /\ Oversized(idx)
    /\ pc = "next"

\* File i has the name of an earlier loadable file, so that its own
\* widgets clash with that file's.
Namesake(i) == \E j \in 1..(i - 1) : Eligible(j) /\ files[j].name = files[i].name

\* C2 as claimed: a failure in a stage of one file never aborts the batch:
\* when a run is over, every file within the size limit and loadable, and
\* with no failing stage of its own, has been taken to Done.
C2_FailureNeverAbortsBatch ==
    (HasFiles /\ pc \in { "end", "aborted" }) =>
        \A i \in 1..Len(files) :
            (Eligible(i) /\ ~Namesake(i)) => status[i] = "Done"

\* C3 (states): a file that passed the size check is loaded exactly when
\* its extension is csv, xlsx or xls in some letter case; with any other
\* extension the unsupported-format error is shown, no table is returned
\* and nothing else is done for the file.
C3_StateInvariant ==
    /\ \A i \in 1..Len(files) :
         (i < idx /\ ~Oversized(i) /\ ~Accepted(files[i].name))
            => status[i] = "LoadFailed"
    /\ (HasFiles /\ pc \notin { "size", "load" } /\ ~Oversized(idx)) =>
         IF Accepted(files[idx].name)
         THEN /\ "error: unsupported file format" \notin msgs
              /\ Eligible(idx) => ("Loaded" \in SeqToSet(trace) /\ IsSome(loaded))
         ELSE /\ msgs = { "error: unsupported file format" }
              /\ NothingProduced
              /\ trace = << "Received", "SizeChecked", "LoadFailed" >>
              /\ status[idx] = "LoadFailed"
              /\ pc \in { "next", "end" }

\* C3 (steps): after an unsupported file the loop goes on to the next file.
C3_LoopGoesOn ==
    (HasFiles /\ pc = "next" /\ idx < Len(files)
       /\ "error: unsupported file format" \in msgs)
    => (pc' = "size" /\ idx' = idx + 1 /\ files' = files)

\* C3: the Loader accepts exactly csv, xlsx and xls, case-insensitively on
\* the last dot-separated segment; any other extension gives the
\* unsupported-format error, no table, no further step for the file, and
\* the loop goes on to the remaining files.
C3_ExactlyThreeExtensions == [] C3_StateInvariant /\ [][C3_LoopGoesOn]_vars

\* C3's case: an unsupported file was refused and the file after it has
\* been loaded.
C3_Witness ==
    /\ idx > 1
    /\ ~Oversized(idx - 1)
    /\ ~Accepted(files[idx - 1].name)
    /\ status[idx - 1] = "LoadFailed"
    /\ "Loaded" \in SeqToSet(trace)

\* The name up to and including its last dot.
UpToExtension(name) == SubSeq(name, 1, Len(name) - Len(LastSegment(name)))

\* C4 as claimed: the exported file name is the original name with only its
\* trailing extension segment replaced by csv or xlsx.
C4_OnlyTrailingExtensionReplaced ==
    IsSome(download) =>
        Get(download).file_name =
            UpToExtension(files[idx].name)
              \o (IF inputs.format = "CSV" THEN csv ELSE xlsx)

RECURSIVE WholeSum(_)
WholeSum(cells) ==
    IF cells = << >> THEN 0
    ELSE (IF Head(cells).k = "num" THEN Head(cells).n ELSE 0) + WholeSum(Tail(cells))

Present(cells) == { r \in 1..Len(cells) : cells[r].k = "num" }

\* C6: fill-missing leaves every non-numeric column identical, leaves every
\* present numeric entry unchanged, and replaces every missing entry of a
\* numeric column by the mean of that column's present entries; a numeric
\* column with no present entry keeps its missing entries.
C6_FillWithColumnMean ==
    (pc = "select" /\ inputs.fill) =>
        LET T == Get(df)
            L == Get(loaded)
        IN  /\ T.columns = L.columns
            /\ T.dtypes = L.dtypes
            /\ T.rows = L.rows
            /\ \A j \in 1..Len(L.columns) :
                 IF L.dtypes[j] # "number" THEN T.data[j] = L.data[j]
                 ELSE \A r \in 1..L.rows :
                        IF L.data[j][r].k = "num"
                        THEN T.data[j][r] = L.data[j][r]
                        ELSE IF Present(L.data[j]) = {}
                        THEN T.data[j][r] = NaN
                        ELSE /\ T.data[j][r].k = "num"
                             /\ T.data[j][r].d > 0
                             /\ T.data[j][r].n * Cardinality(Present(L.data[j]))
                                  = WholeSum(L.data[j]) * T.data[j][r].d

\* C6's case: filled, with a numeric column that has both a missing and two
\* different present entries, next to a text column with a missing entry.
C6_Witness ==
    /\ pc = "select"
    /\ inputs.fill
    /\ LET L == Get(loaded)
       IN  /\ Len(L.columns) = 2
           /\ L.dtypes = << "number", "object" >>
           /\ L.rows = 3
           /\ L.data[1] = << Num(1, 1), NaN, Num(3, 1) >>
           /\ L.data[2] = << NaN, Str("x"), Str("x") >>
           /\ Get(df).data[1] = << Num(1, 1), Num(2, 1), Num(3, 1) >>

\* Whether s is an initial part of t.
IsPrefix(s, t) == Len(s) <= Len(t) /\ s = SubSeq(t, 1, Len(s))

\* The trace is an initial part of the stage order, or the size check ended
\* it with Skipped, or the load ended it with a failure.
FollowsOrder(order) ==
    \/ IsPrefix(trace, order)
    \/ trace = << "Received", "SizeChecked", "Skipped" >>
    \/ trace = << "Received", "SizeChecked", "LoadFailed" >>

C8_FailedStageHalts ==
    ("LoadFailed" \in SeqToSet(trace) \/ "error: conversion" \in msgs) =>
        /\ "Done" \notin SeqToSet(trace)
        /\ "success: processing completed" \notin msgs

\* C9: an artifact exists for a file only in a run in which the download
\* button was pressed for it; it holds that run's transformed table (the
\* selected columns, a header row, one line per row, no index column) in
\* the chosen format, with MIME text/csv for CSV and the spreadsheet type
\* for Excel.
C9_ArtifactOnlyOnRequest ==
    IsSome(download) =>
        LET a == Get(download)
            T == Get(df)
        IN  /\ inputs.clicked
            /\ "Exported" \in SeqToSet(trace)
            /\ a.mime = (IF inputs.format = "CSV" THEN "text/csv"
                         ELSE "application/vnd.openxmlformats-officedocument.spreadsheetml.sheet")
            /\ a.data.format = (IF inputs.format = "CSV" THEN "csv" ELSE "xlsx")
            /\ a.data.header = inputs.selected
            /\ a.data.header = T.columns
            /\ ~a.data.index
            /\ Len(a.data.body) = Get(loaded).rows
            /\ \A i \in 1..T.rows : \A j \in 1..Len(T.columns) :
                 IF T.data[j][i].k = "nan"
                 THEN a.data.body[i][j].k = (IF inputs.format = "CSV" THEN "str" ELSE "nan")
                 ELSE a.data.body[i][j] = T.data[j][i]

\* C9's case: an Excel artifact of a table that fill-missing changed.
C9_Witness ==
    /\ IsSome(download)
    /\ inputs.format = "Excel"
    /\ inputs.fill
    /\ inputs.selected = << "name", "age" >>
    /\ Get(df).data[2] = << Num(25, 1), Num(30, 1), Num(35, 1) >>

\* The names of the numeric columns of T, in T's order.
NumericNames(T) == Kept(T.columns, { T.columns[j] : j \in NumericPositions(T) })

\* C10: a rendered chart has only columns of the selected table that are
\* numeric; with no numeric column in that table there is no chart but a
\* warning; left untouched, the chart selection is the first two numeric
\* columns of the selected table.
C10_ChartOnlyNumeric ==
    /\ IsSome(chart) =>
         /\ inputs.show_chart
         /\ Get(chart).columns # << >>
         /\ \A c \in SeqToSet(Get(chart).columns) : c \in SeqToSet(NumericNames(Get(df)))
         /\ \A j \in 1..Len(Get(chart).columns) : Get(chart).dtypes[j] = "number"
    /\ (pc = "export" /\ inputs.show_chart /\ NumericNames(Get(df)) = << >>) =>
         /\ chart = None
         /\ "warning: no numeric columns for visualization" \in msgs
    /\ (pc = "export" /\ inputs.show_chart /\ ~inputs.chart_touched
          /\ NumericNames(Get(df)) # << >>) =>
         /\ IsSome(chart)
         /\ Get(chart).columns =
              SubSeq(NumericNames(Get(df)), 1, Min(2, Len(NumericNames(Get(df)))))

\* C10's case: three numeric columns selected, the chart left at its
\* default, two columns charted.
C10_Witness ==
    /\ pc = "export"
    /\ inputs.show_chart
    /\ ~inputs.chart_touched
    /\ Len(NumericNames(Get(df))) = 3
    /\ IsSome(chart)
    /\ Len(Get(chart).columns) = 2

============================================================================
